---------------------------- MODULE Spec2Model ----------------------------
(***************************************************************************)
(* Model of src/main.py: the token-usage extraction loop                   *)
(* (extract_token_usage), its helpers (load_tokenizers, count_tokens) and  *)
(* the month cost (calculate_cost, main).                                  *)
(*                                                                         *)
(* A text fragment is abstracted by a name; its token count is the table   *)
(* EncodedLength.  Python's None is the string "None" for string-valued    *)
(* fields and the empty tuple for create_time (<<t>> is the timestamp t).  *)
(* Dollar amounts are integers in units of 10^-7 USD, so that              *)
(* tokens / 1_000_000 * price is the exact product tokens * (10 * price).  *)
(* datetime.fromtimestamp is taken in UTC.                                 *)
(***************************************************************************)
EXTENDS Integers, Sequences, FiniteSets, TLC

VARIABLES
    tokenizers,                  \* keys of the dict load_tokenizers returned
    monthly_model_usage_input,   \* <<month_key, model>> -> ['input'] count
    monthly_model_usage_output,  \* <<month_key, model>> -> ['output'] count
    processed_messages,          \* line 63 / 68
    cumulative_input_tokens,     \* line 66
    pc,                          \* "data" | "mapping" | "parts" | "returned" | "raised"
    exception,                   \* the exception that left extract_token_usage
    cur,                         \* locals of the node whose parts are being looped over
    last,                        \* history: what the last step did
    conv_input_added,            \* history: input tokens added by the current conversation
    running_context,             \* history: raw tokens of the accounted user/assistant
                                 \*          parts of the current conversation, per model
    data,                        \* the log of the permutation check (<<>> otherwise)
    order,                       \* the order in which `data` is walked
    conv_pos,                    \* position in `order`
    node_pos,                    \* position in the current conversation's mapping
    pass,                        \* 0: open input; 1, 2: first and second walk of `data`
    first_result,                \* what the first walk returned
    monthly_costs                \* main, lines 218-221

vars == <<tokenizers, monthly_model_usage_input, monthly_model_usage_output,
          processed_messages, cumulative_input_tokens, pc, exception, cur, last,
          conv_input_added, running_context, data, order, conv_pos, node_pos,
          pass, first_result, monthly_costs>>

-----------------------------------------------------------------------------
(* Bounds of the exploration *)

MaxMessages == 2

MaxParts == 2

MaxConversations == 2

(* Program constants *)

TokenCap == 32000

None == "None"

NoTime == <<>>

CanonicalModels == {"gpt-4-turbo", "gpt-4o", "gpt-3.5-turbo"}

\* COSTS, in tenths of a dollar per million tokens (0.5 -> 5).
COSTS ==
    [m \in {"gpt-4", "gpt-4-turbo", "gpt-4o", "gpt-3.5-turbo"} |->
        CASE m = "gpt-4"         -> [input |-> 300, output |-> 600]
          [] m = "gpt-4-turbo"   -> [input |-> 100, output |-> 300]
          [] m = "gpt-4o"        -> [input |-> 50,  output |-> 150]
          [] m = "gpt-3.5-turbo" -> [input |-> 5,   output |-> 15]]

MODEL_MAPPINGS ==
    [s \in {"gpt-4", "gpt-4-browsing", "gpt-4-code-interpreter", "gpt-4-dalle",
            "gpt-4-gizmo", "gpt-4-mobile", "gpt-4-plugins", "gpt-4o",
            "text-davinci-002-render", "text-davinci-002-render-sha",
            "text-davinci-002-render-sha-mobile"} |->
        CASE s \in {"gpt-4", "gpt-4-browsing", "gpt-4-code-interpreter",
                    "gpt-4-dalle", "gpt-4-gizmo", "gpt-4-mobile", "gpt-4-plugins"}
                 -> "gpt-4-turbo"
          [] s = "gpt-4o" -> "gpt-4o"
          [] OTHER -> "gpt-3.5-turbo"]

-----------------------------------------------------------------------------
(* Tokenizing *)

\* len(tokenizer.encode(text)) for the fragments of the exploration.
EncodedLength(text) ==
    CASE text = ""         -> 0
      [] text = "hello"    -> 3
      [] text = "hi there" -> 2
      [] text = "{image}"  -> 17
      [] text = "HUGE"     -> 40000
      [] OTHER             -> 1

\* tokenizer.encode raises on a text that holds a special token.
EncodeRaises(text) == text = "<|endoftext|>"

\* count_tokens: the except branch returns 0.
count_tokens(text, tokenizer) ==
    IF EncodeRaises(text) THEN 0 ELSE EncodedLength(text)

\* A content part is [is_dict, text]; for a dict, text is json.dumps(part).
StrPart(t) == [is_dict |-> FALSE, text |-> t]

DictPart(t) == [is_dict |-> TRUE, text |-> t]

\* Python truth value of a part: '' and {} are falsy.
PartTruthy(part) == IF part.is_dict THEN part.text # "{}" ELSE part.text # ""

\* Lines 81-82: a dict part is serialized, a string is used as is.
PartText(part) == part.text

-----------------------------------------------------------------------------
(* Month key: datetime.fromtimestamp(t).strftime('%Y-%m') as <<year, month>> *)

MonthKey(t) ==
    LET z    == (t \div 86400) + 719468
        era  == z \div 146097
        doe  == z - era * 146097
        yoe  == (doe - (doe \div 1460) + (doe \div 36524) - (doe \div 146096)) \div 365
        doy  == doe - (365 * yoe + (yoe \div 4) - (yoe \div 100))
        mp   == (5 * doy + 2) \div 153
        m    == IF mp < 10 THEN mp + 3 ELSE mp - 9
        y    == yoe + era * 400 + (IF m <= 2 THEN 1 ELSE 0)
    IN  <<y, m>>

-----------------------------------------------------------------------------
(* A node of conversation['mapping'] and what lines 70-74 read from it.     *)
(* message, content, author, metadata: "absent" | "null" | "dict";          *)
(* parts_kind: "absent" | "null" | "list".                                  *)

\* A chained .get(...) on None raises AttributeError (lines 70-73).
AttributeErrorRaised(node) ==
    \/ node.message = "null"
    \/ /\ node.message = "dict"
       /\ \/ node.content = "null"
          \/ node.author = "null"
          \/ node.metadata = "null"

\* Line 70: .get('parts', ['']); [kind, list], kind "None" for parts: null.
message_content(node) ==
    IF node.message = "absent" \/ node.content = "absent" \/ node.parts_kind = "absent"
    THEN [kind |-> "list", list |-> <<StrPart("")>>]
    ELSE IF node.parts_kind = "null"
    THEN [kind |-> "None", list |-> <<>>]
    ELSE [kind |-> "list", list |-> node.parts]

\* Line 71: .get('role', '')
author_role(node) ==
    IF node.message = "absent" \/ node.author = "absent" THEN "" ELSE node.role

\* Line 72: .get('create_time')
create_time(node) ==
    IF node.message = "absent" THEN NoTime ELSE node.create_time

\* Line 73: .get('model_slug')
model_slug(node) ==
    IF node.message = "absent" \/ node.metadata = "absent" THEN None ELSE node.model_slug

\* Line 74: the truth value of .get('children', [])
children(node) == node.children

TimeTruthy(t) == t # NoTime /\ t[1] # 0

SlugTruthy(s) == s # None /\ s # ""

\* Line 78
ResolveModel(slug) ==
    IF slug \in DOMAIN MODEL_MAPPINGS THEN MODEL_MAPPINGS[slug] ELSE "gpt-4o"

\* Line 79: tokenizers.get(model_slug, tokenizers['gpt-4o']); the default is
\* evaluated first, and is a KeyError when 'gpt-4o' failed to load.
TokenizerFor(slug, toks) == IF slug \in toks THEN slug ELSE "gpt-4o"

\* Lines 69-79 and 100-101: what becomes of a node before its parts are looped over.
\* `and` evaluates left to right and stops at the first falsy operand; only
\* AttributeError is caught.
NodeOutcome(node, toks) ==
    IF AttributeErrorRaised(node) THEN "AttributeError"
    ELSE IF ~TimeTruthy(create_time(node)) THEN "skip"
    ELSE IF message_content(node).kind = "None" THEN "TypeError"
    ELSE IF message_content(node).list = <<>> THEN "IndexError"
    ELSE IF ~PartTruthy(Head(message_content(node).list)) THEN "skip"
    ELSE IF ~SlugTruthy(model_slug(node)) THEN "skip"
    ELSE IF "gpt-4o" \notin toks THEN "KeyError"
    ELSE "account"

-----------------------------------------------------------------------------
(* The body of the loop over parts, lines 84-99 *)

\* Line 66: the counter at the start of a conversation.
CumulativeAtConversationStart_Carried(cum) == cum

CumulativeAtConversationStart(cum) == 0

\* Lines 87-88 and 90: the token count after the cap.
CappedTokenCount_NoTruncation(cum, token_count) == token_count

CappedTokenCount(cum, token_count) ==
    IF cum + token_count > TokenCap THEN TokenCap - cum ELSE token_count

\* Lines 87-91: the counter after the part.
NextCumulative_NoClamp(cum, token_count) == cum + token_count

NextCumulative(cum, token_count) ==
    IF cum + token_count > TokenCap THEN TokenCap ELSE cum + token_count

\* Lines 93-94 and 98-99: is the ['input'] bucket written.
WritesInput_AssistantOnly(role, has_children) == role = "assistant" /\ has_children

WritesInput(role, has_children) ==
    role = "user" \/ (role = "assistant" /\ has_children)

\* Lines 96-97: is the ['output'] bucket written.
WritesOutput(role) == role = "assistant"

\* defaultdict(int): grid[key] += n, the key created at 0 when missing.
AddUsage(grid, key, n) ==
    IF key \in DOMAIN grid
    THEN [grid EXCEPT ![key] = @ + n]
    ELSE grid @@ (key :> n)

\* Reading a bucket as `.get(model, {}).get(direction, 0)` does.
Usage(grid, key) == IF key \in DOMAIN grid THEN grid[key] ELSE 0

-----------------------------------------------------------------------------
(* calculate_cost, lines 109-121 *)

\* grid[month]: model -> count
MonthSlice(grid, month) ==
    [m \in {k[2] : k \in {q \in DOMAIN grid : q[1] = month}} |-> grid[<<month, m>>]]

RECURSIVE SumOver(_, _)
SumOver(f, S) ==
    IF S = {} THEN 0
    ELSE LET x == CHOOSE y \in S : TRUE IN f[x] + SumOver(f, S \ {x})

\* Line 115 for one model.
ModelCost(model, input_tokens, output_tokens) ==
    input_tokens * COSTS[model].input + output_tokens * COSTS[model].output

\* Lines 111-121: the loop runs over the models of input_usage.
calculate_cost(input_usage, output_usage) ==
    LET model_cost ==
          [model \in DOMAIN input_usage |->
              ModelCost(model, input_usage[model],
                        IF model \in DOMAIN output_usage THEN output_usage[model] ELSE 0)]
    IN  SumOver(model_cost, DOMAIN input_usage)

-----------------------------------------------------------------------------
(* Inputs of the exploration *)

\* (role, has children)
RoleKinds == {<<"user", FALSE>>, <<"assistant", TRUE>>, <<"assistant", FALSE>>,
              <<"system", FALSE>>}

\* 2024-01-01 and 2024-02-01, 00:00:00 UTC
\* (create_time, model_slug): 2024-01-01 and 2024-02-01, 00:00:00 UTC; a slug of
\* MODEL_MAPPINGS and one that is not in it.
Stamps == {<<1704067200, "gpt-4">>, <<1704067200, "o1-preview">>,
           <<1706745600, "gpt-4">>}

\* The lists of parts a node may carry; a longer list comes in with a larger MaxParts.
PartListPool ==
    {<<StrPart("hello")>>,
     <<StrPart("HUGE")>>,
     <<StrPart("hello"), StrPart("HUGE")>>,
     <<StrPart("<|endoftext|>"), DictPart("{image}")>>,
     <<StrPart("hi there"), StrPart(""), StrPart("hello")>>}

PartLists == {p \in PartListPool : Len(p) <= MaxParts}

ShapedNode(role, time, slug, kids, parts) ==
    [message |-> "dict", content |-> "dict", parts_kind |-> "list", parts |-> parts,
     author |-> "dict", role |-> role, create_time |-> time,
     metadata |-> "dict", model_slug |-> slug, children |-> kids]

ShapedNodes ==
    {ShapedNode(rk[1], <<st[1]>>, st[2], rk[2], p) :
        rk \in RoleKinds, st \in Stamps, p \in PartLists}

BaseNode == ShapedNode("user", <<1704067200>>, "gpt-4", TRUE, <<StrPart("hello")>>)

\* Nodes that deviate from the expected shape, one deviation each.
EdgeNodes ==
    {[BaseNode EXCEPT !.message = "absent"],
     [BaseNode EXCEPT !.message = "null"],
     [BaseNode EXCEPT !.content = "null"],
     [BaseNode EXCEPT !.author = "null"],
     [BaseNode EXCEPT !.author = "absent"],
     [BaseNode EXCEPT !.metadata = "null"],
     [BaseNode EXCEPT !.metadata = "absent"],
     [BaseNode EXCEPT !.parts_kind = "absent"],
     [BaseNode EXCEPT !.parts_kind = "null"],
     [BaseNode EXCEPT !.parts = <<>>],
     [BaseNode EXCEPT !.parts = <<>>, !.create_time = NoTime],
     [BaseNode EXCEPT !.parts = <<StrPart(""), StrPart("hello")>>],
     [BaseNode EXCEPT !.parts = <<DictPart("{}")>>],
     [BaseNode EXCEPT !.create_time = NoTime],
     [BaseNode EXCEPT !.create_time = <<0>>]}

Nodes == ShapedNodes \cup EdgeNodes

NoNode == [BaseNode EXCEPT !.message = "absent", !.parts = <<>>, !.role = "",
                           !.create_time = NoTime, !.model_slug = None,
                           !.children = FALSE]

NoKey == <<0, 0>>

EmptyGrid == [k \in {} |-> 0]

NoCur == [role |-> "", children |-> FALSE, month_key |-> NoKey, model |-> None,
          tokenizer |-> None, parts |-> <<>>]

NoResult == [returned |-> FALSE, input |-> EmptyGrid, output |-> EmptyGrid]

Step(kind, node, outcome) ==
    [kind |-> kind, node |-> node, outcome |-> outcome, role |-> "",
     children |-> FALSE, key |-> <<NoKey, None>>, raw_tokens |-> 0, cum_before |-> 0,
     input_added |-> 0, output_added |-> 0, others_changed |-> FALSE,
     context_after |-> 0]

ZeroContext == [m \in CanonicalModels |-> 0]

\* The sets of models whose tokenizer fails to load.
LoadFailures == {{}, {"gpt-4o"}, {"gpt-4-turbo", "gpt-3.5-turbo"}, CanonicalModels}

\* The conversations of the permutation check.
ConversationPool ==
    {<<>>,
     <<ShapedNode("user", <<1704067200>>, "gpt-4", TRUE,
                  <<StrPart("hello"), StrPart("HUGE")>>)>>,
     <<ShapedNode("user", <<1706745600>>, "gpt-4", TRUE, <<StrPart("hello")>>),
       ShapedNode("assistant", <<1706745600>>, "o1-preview", TRUE,
                  <<StrPart("hi there")>>)>>,
     <<ShapedNode("system", <<1704067200>>, "gpt-4", TRUE, <<StrPart("HUGE")>>),
       ShapedNode("assistant", <<1704067200>>, "gpt-4", FALSE, <<StrPart("hello")>>)>>,
     <<[BaseNode EXCEPT !.parts = <<>>]>>,
     <<[BaseNode EXCEPT !.message = "null"],
       ShapedNode("user", <<1704067200>>, "o1-preview", FALSE, <<StrPart("hello")>>)>>}

-----------------------------------------------------------------------------
(* Actions *)

InitLoop ==
    /\ monthly_model_usage_input = EmptyGrid
    /\ monthly_model_usage_output = EmptyGrid
    /\ processed_messages = 0
    /\ cumulative_input_tokens = 0
    /\ pc = "data"
    /\ exception = None
    /\ cur = NoCur
    /\ last = Step("init", NoNode, None)
    /\ conv_input_added = 0
    /\ running_context = ZeroContext
    /\ conv_pos = 0
    /\ node_pos = 0
    /\ first_result = NoResult
    /\ monthly_costs = EmptyGrid

\* load_tokenizers (lines 30-38): a model whose tokenizer fails to load gets no key.
load_tokenizers(failed) == CanonicalModels \ failed

Init ==
    /\ tokenizers \in {load_tokenizers(failed) : failed \in LoadFailures}
    /\ data = <<>>
    /\ order = <<>>
    /\ pass = 0
    /\ InitLoop

\* The conversation being walked in the permutation check.
CurrentConversation == data[IF pass = 1 THEN conv_pos ELSE order[conv_pos]]

\* Lines 65-66: the next conversation of `data`.
EnterConversation ==
    /\ pc = "data"
    /\ IF pass = 0 THEN TRUE ELSE conv_pos < Len(data)
    /\ pc' = "mapping"
    /\ cumulative_input_tokens' = CumulativeAtConversationStart(cumulative_input_tokens)
    /\ conv_input_added' = 0
    /\ running_context' = ZeroContext
    /\ last' = Step("conversation", NoNode, None)
    /\ conv_pos' = conv_pos + (IF pass = 0 THEN 0 ELSE 1)
    /\ node_pos' = 0
    /\ UNCHANGED <<tokenizers, monthly_model_usage_input, monthly_model_usage_output,
                   processed_messages, exception, cur, data, order, pass,
                   first_result, monthly_costs>>

\* Line 67: the mapping is exhausted.
LeaveConversation ==
    /\ pc = "mapping"
    /\ IF pass = 0 THEN TRUE ELSE node_pos = Len(CurrentConversation)
    /\ pc' = "data"
    /\ last' = Step("left", NoNode, None)
    /\ UNCHANGED <<tokenizers, monthly_model_usage_input, monthly_model_usage_output,
                   processed_messages, cumulative_input_tokens, exception, cur,
                   conv_input_added, running_context, conv_pos, node_pos, data, order,
                   pass, first_result, monthly_costs>>

\* Lines 67-79 and 100-101: the next node of the mapping, up to the loop over parts.
NextMessage(node) ==
    /\ pc = "mapping"
    /\ processed_messages' = processed_messages + 1
    /\ node_pos' = node_pos + (IF pass = 0 THEN 0 ELSE 1)
    /\ LET outcome == NodeOutcome(node, tokenizers) IN
        /\ last' = Step("node", node, outcome)
        /\ CASE outcome = "account" ->
                  /\ pc' = "parts"
                  /\ exception' = exception
                  /\ cur' = [role      |-> author_role(node),
                             children  |-> children(node),
                             month_key |-> MonthKey(create_time(node)[1]),
                             model     |-> ResolveModel(model_slug(node)),
                             tokenizer |-> TokenizerFor(model_slug(node), tokenizers),
                             parts     |-> message_content(node).list]
             [] outcome \in {"skip", "AttributeError"} ->
                  /\ pc' = "mapping"
                  /\ exception' = exception
                  /\ cur' = cur
             [] OTHER ->
                  /\ pc' = "raised"
                  /\ exception' = outcome
                  /\ cur' = cur
    /\ UNCHANGED <<tokenizers, monthly_model_usage_input, monthly_model_usage_output,
                   cumulative_input_tokens, conv_input_added, running_context, conv_pos,
                   data, order, pass, first_result, monthly_costs>>

\* Lines 80-99: one iteration of the loop over the node's parts.
ProcessPart ==
    /\ pc = "parts"
    /\ cur.parts # <<>>
    /\ LET part        == Head(cur.parts)
           raw         == count_tokens(PartText(part), cur.tokenizer)
           token_count == CappedTokenCount(cumulative_input_tokens, raw)
           key         == <<cur.month_key, cur.model>>
           accounted   == cur.role \in {"user", "assistant"}
           context     == IF accounted
                          THEN [running_context EXCEPT ![cur.model] = @ + raw]
                          ELSE running_context
           input_diff  == Usage(monthly_model_usage_input', key)
                          - Usage(monthly_model_usage_input, key)
           output_diff == Usage(monthly_model_usage_output', key)
                          - Usage(monthly_model_usage_output, key)
           others(g, h) == \E q \in (DOMAIN g \cup DOMAIN h) \ {key} :
                              Usage(g, q) # Usage(h, q)
       IN
        /\ cumulative_input_tokens' = NextCumulative(cumulative_input_tokens, raw)
        /\ monthly_model_usage_input' =
              IF WritesInput(cur.role, cur.children)
              THEN AddUsage(monthly_model_usage_input, key, token_count)
              ELSE monthly_model_usage_input
        /\ monthly_model_usage_output' =
              IF WritesOutput(cur.role)
              THEN AddUsage(monthly_model_usage_output, key, token_count)
              ELSE monthly_model_usage_output
        /\ conv_input_added' = conv_input_added + input_diff
        /\ running_context' = context
        /\ last' = [Step("part", NoNode, None) EXCEPT
                      !.role = cur.role, !.children = cur.children, !.key = key,
                      !.raw_tokens = raw, !.cum_before = cumulative_input_tokens,
                      !.input_added = input_diff,
                      !.output_added = output_diff,
                      !.others_changed =
                          \/ others(monthly_model_usage_input, monthly_model_usage_input')
                          \/ others(monthly_model_usage_output, monthly_model_usage_output'),
                      !.context_after = context[cur.model]]
        /\ cur' = IF Tail(cur.parts) = <<>> THEN NoCur
                  ELSE [cur EXCEPT !.parts = Tail(cur.parts)]
        /\ pc' = IF Tail(cur.parts) = <<>> THEN "mapping" ELSE "parts"
    /\ UNCHANGED <<tokenizers, processed_messages, exception, conv_pos, node_pos,
                   data, order, pass, first_result, monthly_costs>>

\* Lines 106-107: `data` is exhausted.
Return ==
    /\ pc = "data"
    /\ IF pass = 0 THEN TRUE ELSE pass = 2 /\ conv_pos = Len(data)
    /\ pc' = "returned"
    /\ last' = Step("return", NoNode, None)
    /\ UNCHANGED <<tokenizers, monthly_model_usage_input, monthly_model_usage_output,
                   processed_messages, cumulative_input_tokens, exception, cur,
                   conv_input_added, running_context, conv_pos, node_pos, data, order,
                   pass, first_result, monthly_costs>>

\* A log whose conversations and nodes are unknown in advance.
ReadMessage ==
    /\ pass = 0
    /\ processed_messages < MaxMessages
    /\ \E node \in Nodes : NextMessage(node)

\* main, lines 218-221: one cost per month of the input grid.
ComputeMonthlyCosts ==
    /\ pc = "returned"
    /\ pass = 0
    /\ pc' = "costed"
    /\ monthly_costs' =
          [month \in {k[1] : k \in DOMAIN monthly_model_usage_input} |->
              calculate_cost(MonthSlice(monthly_model_usage_input, month),
                             MonthSlice(monthly_model_usage_output, month))]
    /\ last' = Step("costs", NoNode, None)
    /\ UNCHANGED <<tokenizers, monthly_model_usage_input, monthly_model_usage_output,
                   processed_messages, cumulative_input_tokens, exception, cur,
                   conv_input_added, running_context, conv_pos, node_pos, data, order,
                   pass, first_result>>

Next ==
    \/ EnterConversation
    \/ LeaveConversation
    \/ ReadMessage
    \/ ProcessPart
    \/ Return
    \/ ComputeMonthlyCosts

Spec == Init /\ [][Next]_vars

-----------------------------------------------------------------------------
(* The same log walked twice, the second time with its conversations permuted *)

InitPermuted ==
    /\ tokenizers \in {load_tokenizers(failed) : failed \in LoadFailures}
    /\ data \in [1..MaxConversations -> ConversationPool]
    /\ order \in Permutations(1..MaxConversations)
    /\ pass = 1
    /\ InitLoop

\* The next node of the conversation being walked.
ReadLogMessage ==
    /\ pass \in {1, 2}
    /\ pc = "mapping"
    /\ node_pos < Len(CurrentConversation)
    /\ NextMessage(CurrentConversation[node_pos + 1])

\* The first call has returned or raised: keep what it returned and call again on
\* the permuted log, with the same tokenizers.
CallAgain ==
    /\ pass = 1
    /\ IF pc = "raised" THEN TRUE ELSE pc = "data" /\ conv_pos = Len(data)
    /\ first_result' = IF pc = "raised" THEN NoResult
                       ELSE [returned |-> TRUE,
                             input    |-> monthly_model_usage_input,
                             output   |-> monthly_model_usage_output]
    /\ pass' = 2
    /\ monthly_model_usage_input' = EmptyGrid
    /\ monthly_model_usage_output' = EmptyGrid
    /\ processed_messages' = 0
    /\ cumulative_input_tokens' = 0
    /\ pc' = "data"
    /\ exception' = None
    /\ cur' = NoCur
    /\ last' = Step("init", NoNode, None)
    /\ conv_input_added' = 0
    /\ running_context' = ZeroContext
    /\ conv_pos' = 0
    /\ node_pos' = 0
    /\ UNCHANGED <<tokenizers, data, order, monthly_costs>>

NextPermuted ==
    \/ EnterConversation
    \/ LeaveConversation
    \/ ReadLogMessage
    \/ ProcessPart
    \/ CallAgain
    \/ Return

SpecPermuted == InitPermuted /\ [][NextPermuted]_vars

-----------------------------------------------------------------------------
(* Properties *)

PartStep == last.kind = "part"

NodeStep == last.kind = "node"

Min(a, b) == IF a < b THEN a ELSE b

\* C1: within one conversation the amounts its nodes add to the 'input' buckets sum
\* to at most the cap of 32000, and cumulative_input_tokens stays in 0..32000 after
\* every part.
C1_CapInvariant ==
    /\ cumulative_input_tokens \in 0..TokenCap
    /\ conv_input_added <= TokenCap

\* A part that crosses the cap has been truncated and the conversation's input
\* stands exactly at the cap.
C1_Witness ==
    /\ PartStep
    /\ last.cum_before + last.raw_tokens > TokenCap
    /\ last.input_added > 0
    /\ last.input_added < last.raw_tokens
    /\ conv_input_added = TokenCap

\* The shapes C2 lists: message absent or null, a missing or null nested field,
\* parts an empty list, an empty first part, create_time absent.
Deviates(node) ==
    \/ node.message # "dict"
    \/ node.content # "dict"
    \/ node.author # "dict"
    \/ node.metadata # "dict"
    \/ node.parts_kind # "list"
    \/ node.parts = <<>>
    \/ ~PartTruthy(Head(node.parts))
    \/ node.create_time = NoTime

\* C2: a node that deviates from the expected shape is skipped: nothing is raised,
\* nothing is added to the grids and the loop goes on to the next node.
C2_MalformedNodeSkipped ==
    (NodeStep /\ Deviates(last.node)) =>
        /\ pc = "mapping"
        /\ exception = None

\* C3 as claimed: a user part adds to 'input' the token count of the running context
\* of its model after the part has been appended (stated only where the cap has not
\* been reached, which is the case most favourable to the claim).
C3_UserInputIsRunningContext ==
    (PartStep /\ last.role = "user" /\ cumulative_input_tokens < TokenCap) =>
        last.input_added = last.context_after

\* C3 as amended: a user part adds to 'input' the token count of the part alone,
\* truncated to what is left of the cap, 32000 - cumulative_input_tokens.
C3_UserInputIsPartAlone ==
    (PartStep /\ last.role = "user") =>
        /\ last.input_added = Min(last.raw_tokens, TokenCap - last.cum_before)
        /\ last.output_added = 0
        /\ ~last.others_changed

\* The second of two user parts below the cap: the context is larger than the part
\* and the part's own count is what was added.
C3_Witness ==
    /\ PartStep
    /\ last.role = "user"
    /\ last.raw_tokens > 0
    /\ last.context_after > last.raw_tokens
    /\ cumulative_input_tokens < TokenCap
    /\ last.input_added = last.raw_tokens

\* C4: an assistant part adds its own token count to 'output', and the same amount to
\* 'input' exactly when the node has children.
C4_AssistantCountsPartAlone ==
    (PartStep /\ last.role = "assistant") =>
        /\ last.output_added = last.raw_tokens
        /\ last.input_added = (IF last.children THEN last.raw_tokens ELSE 0)

\* C5: a node with a create_time and a non-empty first part is accounted under the
\* mapped model, or under 'gpt-4o' when its model_slug is missing or unknown (stated
\* with the 'gpt-4o' tokenizer loaded).
C5_ModelAlwaysResolved ==
    (/\ NodeStep
     /\ "gpt-4o" \in tokenizers
     /\ ~AttributeErrorRaised(last.node)
     /\ TimeTruthy(create_time(last.node))
     /\ message_content(last.node).kind = "list"
     /\ message_content(last.node).list # <<>>
     /\ PartTruthy(Head(message_content(last.node).list)))
    => /\ pc = "parts"
       /\ cur.model = (IF model_slug(last.node) \in DOMAIN MODEL_MAPPINGS
                       THEN MODEL_MAPPINGS[model_slug(last.node)]
                       ELSE "gpt-4o")

\* The models with a bucket in either grid for the month.
ModelsOfMonth(month) ==
    {k[2] : k \in {q \in DOMAIN monthly_model_usage_input
                          \cup DOMAIN monthly_model_usage_output : q[1] = month}}

RECURSIVE FullMonthCost(_, _)
FullMonthCost(month, models) ==
    IF models = {} THEN 0
    ELSE LET m == CHOOSE x \in models : TRUE IN
         Usage(monthly_model_usage_input, <<month, m>>) * COSTS[m].input
         + Usage(monthly_model_usage_output, <<month, m>>) * COSTS[m].output
         + FullMonthCost(month, models \ {m})

\* C6: the cost of a month is the sum over every model with input or output tokens
\* in that month of input * price.input + output * price.output.
C6_MonthCostCoversOutput ==
    pc = "costed" =>
        \A month \in DOMAIN monthly_costs :
            monthly_costs[month] = FullMonthCost(month, ModelsOfMonth(month))

NonNegativeCounts ==
    /\ \A k \in DOMAIN monthly_model_usage_input : monthly_model_usage_input[k] >= 0
    /\ \A k \in DOMAIN monthly_model_usage_output : monthly_model_usage_output[k] >= 0
    /\ PartStep => (last.input_added >= 0 /\ last.output_added >= 0)

NeverDecreases(grid, grid_after) ==
    \A k \in DOMAIN grid : k \in DOMAIN grid_after /\ grid_after[k] >= grid[k]

\* C7: every count of both grids is a non-negative integer and never decreases from
\* one step of the extraction to the next; the amount added at the cap is not
\* negative.
C7_CountsNeverDecrease ==
    /\ []NonNegativeCounts
    /\ [][/\ NeverDecreases(monthly_model_usage_input, monthly_model_usage_input')
          /\ NeverDecreases(monthly_model_usage_output, monthly_model_usage_output')]_vars

\* A part arrives with the counter already at the cap: 32000 - 32000 = 0 is added.
C7_Witness ==
    /\ PartStep
    /\ last.role = "user"
    /\ last.cum_before = TokenCap
    /\ last.raw_tokens > 0
    /\ last.input_added = 0

\* C8: a part of a node whose role is neither 'user' nor 'assistant' changes neither
\* grid and leaves cumulative_input_tokens as it was.
C8_OtherRoleIgnored ==
    (PartStep /\ last.role \notin {"user", "assistant"}) =>
        /\ last.input_added = 0
        /\ last.output_added = 0
        /\ ~last.others_changed
        /\ cumulative_input_tokens = last.cum_before

\* C9: whichever tokenizers failed to load, extract_token_usage does not raise on
\* their account.
C9_TokenizerFailureNeverRaises ==
    exception # "KeyError"

SecondWalkEnded == pass = 2 /\ pc \in {"returned", "raised"}

\* C10: walking the log with its conversations in another order returns the same
\* two grids (and returns at all exactly when the first walk did).
C10_OrderIrrelevant ==
    SecondWalkEnded =>
        /\ (pc = "returned") = first_result.returned
        /\ pc = "returned" =>
              /\ monthly_model_usage_input = first_result.input
              /\ monthly_model_usage_output = first_result.output

\* Two different conversations were swapped, both walks returned, and one of them
\* has run into the cap.
C10_Witness ==
    /\ SecondWalkEnded
    /\ pc = "returned"
    /\ order[1] # 1
    /\ data[1] # data[2]
    /\ \E k \in DOMAIN monthly_model_usage_input :
          monthly_model_usage_input[k] > TokenCap - 100
    /\ Cardinality(DOMAIN monthly_model_usage_input) > 1

=============================================================================
